---- MODULE Spec2Model ----
(***************************************************************************)
(* Model of the RealtyFlow backend: the automated booking orchestrator     *)
(* (controllers/bookingController.js), the calendar service                *)
(* (services/googleCalendar.js), manual meeting scheduling                 *)
(* (controllers/meetingController.js), lead ingestion                      *)
(* (controllers/leadController.js) and agent administration.               *)
(*                                                                         *)
(* Time is counted in minutes since Monday 00:00 of the server's week.     *)
(* The Record Store is MongoDB: writes made with a session are staged in   *)
(* the transaction and become visible at commit; reads made with a session *)
(* are served from the snapshot opened by the session's first operation;   *)
(* a write to a document changed since that snapshot, or staged by another *)
(* open transaction, fails with a write conflict.                          *)
(***************************************************************************)
EXTENDS Integers, Sequences, FiniteSets, TLC

\* ------------------------------------------------------------------ bounds
MaxServed == 1         \* booking requests served
MaxManual == 2         \* meetings created by POST /api/meetings
MaxLeadDocs == 2       \* Lead documents the store may hold
MaxBusy == 1           \* events the agents put in their own calendars

\* ------------------------------------------------------- program constants
MeetingDuration == 60  \* bookingController.js: const meetingDuration = 60
OneHour == 60          \* 60 * 60 * 1000 ms
ClockValues == {525, 585, 615}       \* values the server clock takes

Procs == {1, 2}                      \* requests served at the same time
Agents == {"Jane", "Joe"}
AgentOrder == <<"Jane", "Joe">>      \* natural order returned by Agent.find
Emails == {"a@x.com", "A@X.com", "b@x.com", "bad"}
PropertyIds == {"P1", "P9"}
Properties == {"P1"}                 \* the Property collection
PrefTimes == {600, 630}
NoPref == -1
Missing == "missing"
NoLead == [email |-> "none", status |-> "none", assignedTo |-> "none",
           source |-> "none", lastContacted |-> -1, by |-> 0]
NoMeeting == [assignedTo |-> "none", dateTime |-> -1, status |-> "none",
              createdAt |-> -1, calendarEventId |-> "none", by |-> 0]
MeetingSchemaPaths == {"leadName", "propertyAddress", "dateTime", "status",
                       "notes", "assignedTo"}
NoAgent == "none"
NoSel == [agent |-> "none", start |-> -1, end |-> -1]
NoBody == [name |-> FALSE, email |-> Missing, propertyId |-> Missing,
           preferredDateTime |-> NoPref]
NoResp == [code |-> 0, bookingStatus |-> "none", lead |-> "none",
           calendarLink |-> "none"]
Absent == "absent"                   \* a field the document does not have
Null == "null"                       \* a field stored with the value null
CalBodies == {Absent, Null}          \* googleCalendarId of an admin's body
SourceEnum == {"Zillow", "Realtor.com", "Website", "Referral", "Organic", "Other"}
WebhookSources == {"Webhook", "Website"}
NoReply == [op |-> "none"]
NoTxn == [state |-> "none", lead |-> NoLead, meeting |-> NoMeeting,
          agent |-> NoAgent, total |-> 0, stale |-> {}]
NewAgent(active) == [exists |-> TRUE, isActive |-> active,
                     googleCalendarId |-> Absent, googleAccessToken |-> FALSE,
                     totalMeetings |-> 0]
NoAgentDoc == [exists |-> FALSE, isActive |-> FALSE,
               googleCalendarId |-> Absent, googleAccessToken |-> FALSE,
               totalMeetings |-> 0]

VARIABLES
  now,       \* server clock
  leads,     \* Lead collection, in insertion order
  meetings,  \* Meeting collection, in insertion order
  agents,    \* Agent collection
  events,    \* Calendar Provider: the events of the agents' calendars
  pc,        \* position of each booking request in createAutomatedBooking
  body,      \* req.body of each booking request
  txn,       \* session/transaction of each booking request
  found,     \* availableAgents of each booking request
  idx,       \* loop position in availableAgents
  sel,       \* selectedAgent / selectedSlot
  calEvent,  \* calendarEvent.eventId of each booking request
  notified,  \* notifications dispatched by each booking request
  resp,      \* response of each booking request
  rid,       \* serial number of the request each slot is serving
  served,    \* number of booking requests received
  reply,     \* answer of the last other handler or service call
  oauth2Client,    \* credentials the calendar service's one OAuth client holds
                   \* while calls are in flight (a handler taken as one step
                   \* sets and uses its credentials inside that step)
  calls,           \* calendar service calls in flight, one per caller
  connectedUsers,  \* SocketService.connectedUsers: userId -> socket.id
  sockets          \* the sockets of the io server and their userId

vars == <<now, leads, meetings, agents, events, pc, body, txn, found, idx, sel,
          calEvent, notified, resp, rid, served, reply,
          oauth2Client, calls, connectedUsers, sockets>>

svcVars == <<oauth2Client, calls, connectedUsers, sockets>>

reqVars == <<pc, body, txn, found, idx, sel, calEvent, notified, resp, rid,
             served>>

\* ----------------------------------------------------------------- helpers
Range(s) == {s[i] : i \in 1..Len(s)}

RECURSIVE SelectSeq2(_, _)
\* the subsequence of s whose elements are in the set S
SelectSeq2(s, S) ==
  IF s = <<>> THEN <<>>
  ELSE IF Head(s) \in S THEN <<Head(s)>> \o SelectSeq2(Tail(s), S)
       ELSE SelectSeq2(Tail(s), S)

\* Lead.js email: lowercase: true
LowerCase(e) == IF e = "A@X.com" THEN "a@x.com" ELSE e

\* Lead.js email: match /^\w+...@.../
EmailMatches(e) == e # "bad"

\* Meeting.js conflictsWith: two one-hour windows overlap
ConflictsWith(m, other) ==
  /\ m.status = "Scheduled" /\ other.status = "Scheduled"
  /\ m.dateTime < other.dateTime + OneHour
  /\ m.dateTime + OneHour > other.dateTime


\* ------------------------------------------------------------ Agent model
\* models/Agent.js defaults: workingHours 09:00-17:00, Monday..Friday,
\* bufferTime 15 (minutes; weekdays counted from Monday = 0)
WorkStart == 540
WorkEnd == 1020
BufferTime == 15
WorkingDays == {0, 1, 2, 3, 4}

DayOf(t) == t \div 1440
WeekdayOf(t) == DayOf(t) % 7

\* bookingController.js: Agent.find({isActive: true,
\*                                  googleCalendarId: {$exists: true}})
IsBookable(doc) ==
  doc.exists /\ doc.isActive /\ doc.googleCalendarId # Absent

\* routes/auth.js: isConnected = !!(agent && agent.googleCalendarId)
IsConnected(doc) ==
  doc.exists /\ doc.googleCalendarId \notin {Absent, Null}

\* the query result over a state of the Agent collection, in natural order
BookableAgents(coll) ==
  SelectSeq2(AgentOrder, {a \in Agents : IsBookable(coll[a])})

\* ------------------------------------------------- services/googleCalendar
\* setAgentCredentials throws when the agent is missing or has no access
\* token; the provider call throws when it fails or is given no calendar id
CredentialsThrow(a, fails) ==
  \/ ~agents[a].exists
  \/ ~agents[a].googleAccessToken
  \/ agents[a].googleCalendarId = Null
  \/ fails

\* the provider's free/busy answer for [s, e): the events of the calendar
\* that overlap the window (every event lasts MeetingDuration)
BusySlots(a, s, e) ==
  {ev \in events : ev.agent = a /\ ev.start < e /\ ev.start + MeetingDuration > s}

\* (mutant) an oracle that answers false when anything throws
CheckAvailabilityFailClosed(a, s, e, fails) ==
  IF CredentialsThrow(a, fails) THEN FALSE
  ELSE BusySlots(a, s, e) = {}

\* checkAvailability: true when nothing is busy; true when anything throws
CheckAvailability(a, s, e, fails) ==
  IF CredentialsThrow(a, fails) THEN TRUE
  ELSE BusySlots(a, s, e) = {}

RECURSIVE SlotLoop(_, _, _, _, _, _)
\* getAvailableSlots, the while loop: candidates from cur up to endTime
SlotLoop(a, cur, endTime, duration, buffer, fails) ==
  IF ~(cur < endTime) THEN <<>>
  ELSE LET slotEnd == cur + duration
           isAvailable == CheckAvailability(a, cur, slotEnd, fails)
           rest == SlotLoop(a, slotEnd + buffer, endTime, duration, buffer, fails)
       IN IF isAvailable /\ slotEnd <= endTime
          THEN <<[start |-> cur, end |-> slotEnd]>> \o rest
          ELSE rest

\* getAvailableSlots from the working-day test on: the free windows of the
\* day of date
SlotsOfDay(a, date, duration, fails) ==
  IF WeekdayOf(date) \notin WorkingDays THEN <<>>
  ELSE SlotLoop(a, DayOf(date) * 1440 + WorkStart, DayOf(date) * 1440 + WorkEnd,
                duration, BufferTime, fails)

\* (mutant) a date argument that has the method
DateIsAString == TRUE

\* date.toLocaleLowerCase(...): Date objects have no such method (it is a
\* String method), so the call throws a TypeError
DateHasToLocaleLowerCase == FALSE

\* getAvailableSlots: every throw is caught and answered with []
GetAvailableSlots(a, date, duration, fails) ==
  IF ~agents[a].exists THEN <<>>
  ELSE IF CredentialsThrow(a, fails) THEN <<>>
  ELSE IF ~DateHasToLocaleLowerCase THEN <<>>
  ELSE SlotsOfDay(a, date, duration, fails)

RECURSIVE Candidates(_, _, _)
\* the values currentTime takes in the while loop of getAvailableSlots
Candidates(cur, endTime, step) ==
  IF ~(cur < endTime) THEN <<>>
  ELSE <<cur>> \o Candidates(cur + step, endTime, step)

\* the candidates getAvailableSlots passes to checkAvailability: none when
\* the call has thrown before its loop
ExaminedCandidates(a, date, duration, fails) ==
  IF ~agents[a].exists \/ CredentialsThrow(a, fails) THEN <<>>
  ELSE IF ~DateHasToLocaleLowerCase THEN <<>>
  ELSE IF WeekdayOf(date) \notin WorkingDays THEN <<>>
  ELSE Candidates(DayOf(date) * 1440 + WorkStart, DayOf(date) * 1440 + WorkEnd,
                  duration + BufferTime)

\* iterations after which a loop is given up as not terminating
MaxIterations == 100

\* (mutant) a cursor that advances by the buffer alone
SlotStepBufferOnly(duration, buffer) == buffer

\* both generators advance their cursor by duration + bufferTime
SlotStep(duration, buffer) == duration + buffer

RECURSIVE LoopIterations(_, _, _, _)
\* the number of times the body of while (cur < endTime) runs, counted up
\* to MaxIterations
LoopIterations(cur, endTime, step, done) ==
  IF ~(cur < endTime) \/ done >= MaxIterations THEN done
  ELSE LoopIterations(cur + step, endTime, step, done + 1)

\* ------------------------------------------- Agent.getNextAvailableSlots
\* the default of the count parameter
SlotCount == 3
\* the days the method looks ahead
LookAhead == 7

RECURSIVE NextSlotsOfDay(_, _, _, _, _)
\* the while loop: the slot times of one day that are later than the clock,
\* at most room of them, stepping by meetingDuration + bufferTime
NextSlotsOfDay(slotTime, endTime, step, room, clock) ==
  IF ~(slotTime < endTime /\ room > 0) THEN <<>>
  ELSE IF slotTime > clock
       THEN <<slotTime>> \o
            NextSlotsOfDay(slotTime + step, endTime, step, room - 1, clock)
       ELSE NextSlotsOfDay(slotTime + step, endTime, step, room, clock)

RECURSIVE NextSlotsFrom(_, _, _, _, _)
\* the for loop over the days from day on
NextSlotsFrom(day, daysLeft, step, room, clock) ==
  IF ~(daysLeft > 0 /\ room > 0) THEN <<>>
  ELSE LET today == IF day % 7 \in WorkingDays
                    THEN NextSlotsOfDay(day * 1440 + WorkStart,
                                        day * 1440 + WorkEnd, step, room, clock)
                    ELSE <<>>
       IN today \o NextSlotsFrom(day + 1, daysLeft - 1, step,
                                 room - Len(today), clock)

\* agent.getNextAvailableSlots(startDate, count): the weekday of a Date is
\* asked with toLocaleLowerCase, which throws
GetNextAvailableSlots(startDate, count, duration, buffer, clock) ==
  IF ~DateHasToLocaleLowerCase THEN [threw |-> TRUE, slots |-> <<>>]
  ELSE [threw |-> FALSE,
        slots |-> NextSlotsFrom(DayOf(startDate), LookAhead, duration + buffer,
                                count, clock)]

\* ---------------------------------------------------------- Record Store
\* the session of request r has an open server-side transaction
TxnActive(r) == txn[r].state = "active"

\* (mutant) the filter of findOne compared as given, without the setters
LeadByEmailExact(coll, e) == {i \in DOMAIN coll : coll[i].email = e}

\* Lead.findOne({email}): the filter is cast with the schema's setters
LeadByEmail(coll, e) == {i \in DOMAIN coll : coll[i].email = LowerCase(e)}

\* (mutant) a collection without the unique index
DuplicateKeyIgnored(coll, e) == FALSE

\* Lead.js email: unique: true (duplicate key error 11000)
DuplicateKey(coll, e) == LeadByEmail(coll, e) # {}

\* a Lead document as the schema stores it
LeadDoc(e, assignedTo, source, by) ==
  [email |-> LowerCase(e), status |-> "New", assignedTo |-> assignedTo,
   source |-> source, lastContacted |-> now, by |-> by]

\* another open transaction has staged a Lead with this email
LeadStagedElsewhere(r, e) ==
  \E q \in Procs \ {r} : TxnActive(q) /\ txn[q].lead.email = LowerCase(e)

\* another open transaction has staged a write of this Agent document
AgentStagedElsewhere(r, a) ==
  \E q \in Procs \ {r} : TxnActive(q) /\ txn[q].agent = a

\* a committed write of Agent a invalidates it for the open snapshots
MarkStale(t, a) ==
  [q \in Procs |-> IF t[q].state = "active"
                   THEN [t[q] EXCEPT !.stale = @ \cup {a}] ELSE t[q]]

\* ------------------------------------------------------- environment steps
Tick ==
  /\ \E t \in ClockValues : t > now /\ now' = t
  /\ UNCHANGED <<svcVars, reply, leads, meetings, agents, events, reqVars>>

\* the agent (or anybody else) puts an event in the agent's own calendar
ExternalEvent(a, t) ==
  /\ Cardinality({ev \in events : ev.by = 0}) < MaxBusy
  /\ [agent |-> a, start |-> t, by |-> 0] \notin events
  /\ events' = events \cup {[agent |-> a, start |-> t, by |-> 0]}
  /\ UNCHANGED <<svcVars, reply, now, leads, meetings, agents, reqVars>>

\* ------------------------------------------------- agent administration
\* POST /api/agents: Agent.create(req.body)
CreateAgent(a, active, cal) ==
  /\ ~agents[a].exists
  /\ \A i \in 1..Len(AgentOrder) :
        AgentOrder[i] = a => \A j \in 1..(i - 1) : agents[AgentOrder[j]].exists
  /\ agents' = [agents EXCEPT ![a] =
                  [NewAgent(active) EXCEPT !.googleCalendarId = cal]]
  /\ UNCHANGED <<svcVars, reply, now, leads, meetings, events, reqVars>>

\* PUT /api/agents/:id: Agent.findByIdAndUpdate(id, req.body); a field the
\* body does not have (Absent) is left as it is
UpdateAgent(a, active, cal) ==
  /\ agents[a].exists
  /\ ~AgentStagedElsewhere(0, a)
  /\ agents' = [agents EXCEPT ![a].isActive = active,
                              ![a].googleCalendarId =
                                 IF cal = Absent THEN @ ELSE cal]
  /\ agents' # agents
  /\ txn' = MarkStale(txn, a)
  /\ UNCHANGED <<svcVars, reply, now, leads, meetings, events, pc, body, found, idx, sel,
                 calEvent, notified, resp, rid, served>>

\* googleCalendar.handleCallback: stores the calendar id and the tokens
CallbackDoc(doc) ==
  [doc EXCEPT !.googleCalendarId = "primary", !.googleAccessToken = TRUE]

HandleCallback(a) ==
  /\ agents[a].exists
  /\ agents[a] # CallbackDoc(agents[a])
  /\ ~AgentStagedElsewhere(0, a)
  /\ agents' = [agents EXCEPT ![a] = CallbackDoc(@)]
  /\ txn' = MarkStale(txn, a)
  /\ UNCHANGED <<svcVars, reply, now, leads, meetings, events, pc, body, found, idx, sel,
                 calEvent, notified, resp, rid, served>>

\* googleCalendar.disconnectCalendar: $unset of the calendar id and tokens
DisconnectDoc(doc) ==
  [doc EXCEPT !.googleCalendarId = Absent, !.googleAccessToken = FALSE]

DisconnectCalendar(a) ==
  /\ agents[a].exists
  /\ agents[a] # DisconnectDoc(agents[a])
  /\ ~AgentStagedElsewhere(0, a)
  /\ agents' = [agents EXCEPT ![a] = DisconnectDoc(@)]
  /\ txn' = MarkStale(txn, a)
  /\ UNCHANGED <<svcVars, reply, now, leads, meetings, events, pc, body, found, idx, sel,
                 calEvent, notified, resp, rid, served>>

\* ------------------------------------------------------- lead ingestion
\* POST /api/leads: Lead.create(req.body); an insert of a key that an open
\* transaction has staged waits for that transaction
CreateLead(e) ==
  /\ Len(leads) < MaxLeadDocs
  /\ EmailMatches(e)
  /\ ~LeadStagedElsewhere(0, e)
  /\ ~DuplicateKey(leads, e)
  /\ leads' = Append(leads, LeadDoc(e, "Manual", "Referral", 0))
  /\ UNCHANGED <<svcVars, reply, now, meetings, agents, events, reqVars>>

\* Lead.js status: enum, default New
LeadStatuses == {"New", "Contacted", "Nurturing", "Closed"}
StatusBodies == LeadStatuses \cup {Absent, "Archived"}

\* (mutant) a status check that accepts every value the body has
ValidStatusAny(st) == st # Absent

\* the status check of updateLeadStatus and of the schema's enum
ValidStatus(st) == st \in LeadStatuses

\* POST /api/leads with a status in the body: the schema's enum validates
\* it on Lead.create; a ValidationError is answered 400
CreateLeadWith(e, st) ==
  /\ st # Absent
  /\ Len(leads) < MaxLeadDocs
  /\ EmailMatches(e)
  /\ ~LeadStagedElsewhere(0, e)
  /\ ~DuplicateKey(leads, e)
  /\ IF ValidStatus(st)
     THEN /\ leads' = Append(leads, [LeadDoc(e, "Manual", "Referral", 0)
                                       EXCEPT !.status = st])
          /\ reply' = [op |-> "createLead", email |-> e, status |-> st,
                       code |-> 201]
     ELSE /\ reply' = [op |-> "createLead", email |-> e, status |-> st,
                       code |-> 400]
          /\ UNCHANGED leads
  /\ UNCHANGED <<svcVars, now, meetings, agents, events, reqVars>>

\* PUT /api/leads/:id with a status in the body: findByIdAndUpdate with
\* runValidators; an invalid value is answered 400 and nothing is written
UpdateLead(i, st) ==
  /\ i \in DOMAIN leads
  /\ ValidStatus(st)
  /\ st # leads[i].status
  /\ ~LeadStagedElsewhere(0, leads[i].email)
  /\ leads' = [leads EXCEPT ![i].status = st]
  /\ UNCHANGED <<svcVars, reply, now, meetings, agents, events, reqVars>>

\* PATCH /api/leads/:id/status: 400 for a missing or unknown status, 404
\* for an unknown id, otherwise status and lastContacted are written
UpdateLeadStatus(i, st) ==
  /\ IF ~(st # Absent /\ ValidStatus(st))
     THEN /\ reply' = [op |-> "updateLeadStatus", id |-> i, status |-> st,
                       at |-> now, code |-> 400]
          /\ UNCHANGED leads
     ELSE IF i \notin DOMAIN leads
     THEN /\ reply' = [op |-> "updateLeadStatus", id |-> i, status |-> st,
                       at |-> now, code |-> 404]
          /\ UNCHANGED leads
     ELSE /\ leads' = [leads EXCEPT ![i].status = st,
                                    ![i].lastContacted = now]
          /\ reply' = [op |-> "updateLeadStatus", id |-> i, status |-> st,
                       at |-> now, code |-> 200]
  /\ UNCHANGED <<svcVars, now, meetings, agents, events, reqVars>>

\* ------------------------------------------------------ manual scheduling
\* createMeeting: the Scheduled meetings of assignedTo found by the pre-check
ConflictingMeetings(a, t) ==
  {i \in DOMAIN meetings :
     /\ meetings[i].assignedTo = a
     /\ meetings[i].status = "Scheduled"
     /\ meetings[i].dateTime < t + OneHour
     /\ meetings[i].dateTime >= t - OneHour}

\* (mutant) a schema without the dateTime validator
InFutureAlways(t) == TRUE

\* Meeting.js dateTime validator: value > new Date()
InFuture(t) == t > now

ManualMeetings == {i \in DOMAIN meetings : meetings[i].by = 0}

\* the answer of createMeeting
MeetingReply(a, t, code, conflicts) ==
  [op |-> "createMeeting", assignedTo |-> a, dateTime |-> t, code |-> code,
   conflicts |-> conflicts]

\* POST /api/meetings: 409 with the conflicts of the pre-check, 400 when
\* Meeting.create fails the schema's validation, 201 otherwise
CreateMeeting(a, t) ==
  /\ Cardinality(ManualMeetings) < MaxManual
  /\ IF ConflictingMeetings(a, t) # {}
     THEN /\ reply' = MeetingReply(a, t, 409, ConflictingMeetings(a, t))
          /\ UNCHANGED meetings
     ELSE IF ~InFuture(t)
     THEN /\ reply' = MeetingReply(a, t, 400, {})
          /\ UNCHANGED meetings
     ELSE /\ meetings' = Append(meetings, [NoMeeting EXCEPT !.assignedTo = a,
                                             !.dateTime = t,
                                             !.status = "Scheduled",
                                             !.createdAt = now])
          /\ reply' = MeetingReply(a, t, 201, {})
  /\ UNCHANGED <<svcVars, now, leads, agents, events, reqVars>>

\* PUT /api/meetings/:id: findByIdAndUpdate(id, req.body, runValidators)
UpdateMeeting(i, a, t) ==
  /\ i \in DOMAIN meetings
  /\ t # meetings[i].dateTime => InFuture(t)
  /\ <<a, t>> # <<meetings[i].assignedTo, meetings[i].dateTime>>
  /\ meetings' = [meetings EXCEPT ![i].assignedTo = a, ![i].dateTime = t]
  /\ UNCHANGED <<svcVars, reply, now, leads, agents, events, reqVars>>

\* PATCH /api/meetings/:id/status
UpdateMeetingStatus(i, st) ==
  /\ i \in DOMAIN meetings
  /\ st \in {"Scheduled", "Completed", "Missed"}
  /\ st # meetings[i].status
  /\ meetings' = [meetings EXCEPT ![i].status = st]
  /\ UNCHANGED <<svcVars, reply, now, leads, agents, events, reqVars>>

\* ------------------------------------------- createAutomatedBooking steps
\* (mutant) a catch block that forgets session.abortTransaction()
AbortForgotten(t) == t

\* the catch block: session.abortTransaction() discards the staged writes
Abort(t) == [t EXCEPT !.state = "aborted", !.lead = NoLead,
                      !.meeting = NoMeeting, !.agent = NoAgent, !.total = 0]

\* request r ends in the catch block with the given status code
Throw(r, code) ==
  /\ txn' = [txn EXCEPT ![r] = Abort(@)]
  /\ pc' = [pc EXCEPT ![r] = "done"]
  /\ resp' = [resp EXCEPT ![r] = [NoResp EXCEPT !.code = code]]

\* an early return: the response is sent, the session is left as it is
Return(r, code, lead) ==
  /\ pc' = [pc EXCEPT ![r] = "done"]
  /\ resp' = [resp EXCEPT ![r] = [NoResp EXCEPT !.code = code, !.lead = lead]]

\* (mutant) the required-field test without propertyId
RequiredMissingNoProperty(b) == ~b.name \/ b.email = Missing

\* if (!name || !email || !propertyId)
RequiredMissing(b) ==
  ~b.name \/ b.email = Missing \/ b.propertyId = Missing

\* startTransaction, the required-field test and Property.findById
StartBooking(r, b) ==
  /\ pc[r] = "idle"
  /\ served' = served + 1
  /\ rid' = [rid EXCEPT ![r] = served + 1]
  /\ body' = [body EXCEPT ![r] = b]
  /\ txn' = [txn EXCEPT ![r].state = "started"]
  /\ IF RequiredMissing(b)
     THEN Return(r, 400, "none")
     ELSE IF b.propertyId \notin Properties
          THEN Return(r, 404, "none")
          ELSE /\ pc' = [pc EXCEPT ![r] = "dedupe"]
               /\ UNCHANGED resp
  /\ UNCHANGED <<svcVars, found, idx, sel, calEvent, notified>>

\* POST /api/booking/request-visit arrives
BookStart(r, b) ==
  /\ StartBooking(r, b)
  /\ UNCHANGED <<svcVars, reply, now, leads, meetings, agents, events>>

\* the response has been delivered: the slot serves the next request
BookEnd(r) ==
  /\ pc[r] = "done"
  /\ pc' = [pc EXCEPT ![r] = "idle"]
  /\ body' = [body EXCEPT ![r] = NoBody]
  /\ txn' = [txn EXCEPT ![r] = NoTxn]
  /\ found' = [found EXCEPT ![r] = <<>>]
  /\ idx' = [idx EXCEPT ![r] = 1]
  /\ sel' = [sel EXCEPT ![r] = NoSel]
  /\ calEvent' = [calEvent EXCEPT ![r] = "none"]
  /\ notified' = [notified EXCEPT ![r] = "none"]
  /\ resp' = [resp EXCEPT ![r] = NoResp]
  /\ rid' = [rid EXCEPT ![r] = 0]
  /\ UNCHANGED <<svcVars, reply, now, leads, meetings, agents, events, served>>

\* Lead.findOne({email}).session(session): the first operation of the
\* session opens the snapshot that its later reads are served from
BookDedupe(r) ==
  /\ pc[r] = "dedupe"
  /\ txn' = [txn EXCEPT ![r].state = "active"]
  /\ \/ /\ LeadByEmail(leads, body[r].email) # {}
        /\ \E i \in LeadByEmail(leads, body[r].email) :
             Return(r, 409, leads[i].email)
        /\ UNCHANGED found
     \/ /\ LeadByEmail(leads, body[r].email) = {}
        /\ found' = [found EXCEPT ![r] = BookableAgents(agents)]
        /\ pc' = [pc EXCEPT ![r] = "createLead"]
        /\ UNCHANGED resp
  /\ UNCHANGED <<svcVars, reply, now, leads, meetings, agents, events, body, idx, sel,
                 calEvent, notified, rid, served>>

\* Lead.create([...], {session})
BookCreateLead(r) ==
  /\ pc[r] = "createLead"
  /\ \/ /\ ~EmailMatches(body[r].email)
        /\ Throw(r, 400)
     \/ /\ EmailMatches(body[r].email)
        /\ \/ DuplicateKey(leads, body[r].email)
           \/ LeadStagedElsewhere(r, body[r].email)
        /\ Throw(r, 500)
     \/ /\ EmailMatches(body[r].email)
        /\ ~DuplicateKey(leads, body[r].email)
        /\ ~LeadStagedElsewhere(r, body[r].email)
        /\ txn' = [txn EXCEPT ![r].lead =
                     LeadDoc(body[r].email, "Auto-assigned", "Website", rid[r])]
        /\ pc' = [pc EXCEPT ![r] = "discover"]
        /\ UNCHANGED resp
     \/ /\ EmailMatches(body[r].email)
        /\ Throw(r, 500)
  /\ UNCHANGED <<svcVars, reply, now, leads, meetings, agents, events, body, found, idx, sel,
                 calEvent, notified, rid, served>>

\* Agent.find(...).session(session) and the test of availableAgents.length
BookDiscover(r) ==
  /\ pc[r] = "discover"
  /\ \/ /\ found[r] = <<>>
        /\ pc' = [pc EXCEPT ![r] = "commitLeadOnly"]
        /\ UNCHANGED <<svcVars, txn, resp, idx>>
     \/ /\ found[r] # <<>>
        /\ pc' = [pc EXCEPT ![r] =
                    IF body[r].preferredDateTime # NoPref
                    THEN "preferred" ELSE "search"]
        /\ idx' = [idx EXCEPT ![r] = 1]
        /\ UNCHANGED <<svcVars, txn, resp>>
  /\ UNCHANGED <<svcVars, reply, now, leads, meetings, agents, events, body, found, sel,
                 calEvent, notified, rid, served>>

\* (mutant) slotEnd computed without the meeting duration
PreferredSlotNoDuration(a, preferredTime) ==
  [agent |-> a, start |-> preferredTime, end |-> preferredTime]

\* the slot chosen at the preferred time for agent a
PreferredSlot(a, preferredTime) ==
  [agent |-> a, start |-> preferredTime,
   end |-> preferredTime + MeetingDuration]

\* one pass of the loop over availableAgents at the preferred time
BookPreferred(r) ==
  /\ pc[r] = "preferred"
  /\ \E fails \in BOOLEAN :
       LET a == found[r][idx[r]]
           slot == PreferredSlot(a, body[r].preferredDateTime)
       IN IF CheckAvailability(a, slot.start, slot.end, fails)
          THEN /\ sel' = [sel EXCEPT ![r] = slot]
               /\ pc' = [pc EXCEPT ![r] = "assign"]
               /\ UNCHANGED idx
          ELSE /\ UNCHANGED sel
               /\ IF idx[r] < Len(found[r])
                  THEN /\ idx' = [idx EXCEPT ![r] = @ + 1]
                       /\ UNCHANGED pc
                  ELSE /\ idx' = [idx EXCEPT ![r] = 1]
                       /\ pc' = [pc EXCEPT ![r] = "search"]
  /\ UNCHANGED <<svcVars, reply, now, leads, meetings, agents, events, body, txn, found,
                 calEvent, notified, resp, rid, served>>

\* startDate of the search for the next available slot
StartDate(r) ==
  IF body[r].preferredDateTime # NoPref THEN body[r].preferredDateTime ELSE now

\* one pass of the loop over availableAgents for the next available slot
BookSearch(r) ==
  /\ pc[r] = "search"
  /\ \E fails \in BOOLEAN :
       LET a == found[r][idx[r]]
           availableSlots ==
             GetAvailableSlots(a, StartDate(r), MeetingDuration, fails)
       IN IF Len(availableSlots) > 0
          THEN /\ sel' = [sel EXCEPT ![r] =
                           [agent |-> a, start |-> availableSlots[1].start,
                            end |-> availableSlots[1].end]]
               /\ pc' = [pc EXCEPT ![r] = "assign"]
               /\ UNCHANGED idx
          ELSE /\ UNCHANGED sel
               /\ IF idx[r] < Len(found[r])
                  THEN /\ idx' = [idx EXCEPT ![r] = @ + 1]
                       /\ UNCHANGED pc
                  ELSE /\ UNCHANGED idx
                       /\ pc' = [pc EXCEPT ![r] = "commitLeadOnly"]
  /\ UNCHANGED <<svcVars, reply, now, leads, meetings, agents, events, body, txn, found,
                 calEvent, notified, resp, rid, served>>

\* (mutant) a commit that loses the staged Lead
CommitLeadsLost(r) == leads

\* session.commitTransaction(): the staged writes become visible together
CommitLeads(r) ==
  IF txn[r].lead # NoLead THEN Append(leads, txn[r].lead) ELSE leads

CommitMeetings(r) ==
  IF txn[r].meeting # NoMeeting THEN Append(meetings, txn[r].meeting)
  ELSE meetings

\* (mutant) a commit that loses the agent's counter increment
CommitAgentsLost(r) == agents

CommitAgents(r) ==
  IF txn[r].agent # NoAgent
  THEN [agents EXCEPT ![txn[r].agent].totalMeetings = txn[r].total]
  ELSE agents

CommitTxn(r) ==
  LET t == [txn EXCEPT ![r].state = "committed"]
  IN IF txn[r].agent # NoAgent THEN MarkStale(t, txn[r].agent) ELSE t

\* (mutant) a response that always carries a calendar link
CalendarLinkAlways(ev) == "htmlLink"

\* calendarEvent.htmlLink: null when createEvent has thrown
CalendarLink(ev) == IF ev = "event" THEN "htmlLink" ELSE "null"

Commit(r, code, status) ==
  /\ leads' = CommitLeads(r)
  /\ meetings' = CommitMeetings(r)
  /\ agents' = CommitAgents(r)
  /\ txn' = CommitTxn(r)
  /\ pc' = [pc EXCEPT ![r] = "done"]
  /\ resp' = [resp EXCEPT ![r] =
                [code |-> code, bookingStatus |-> status,
                 lead |-> txn[r].lead.email,
                 calendarLink |-> IF status = "fully_booked"
                                  THEN CalendarLink(calEvent[r]) ELSE "none"]]

\* no agent or no slot: commit the Lead alone and answer 200 lead_only
BookCommitLeadOnly(r) ==
  /\ pc[r] = "commitLeadOnly"
  /\ \/ Commit(r, 200, "lead_only")
     \/ /\ Throw(r, 500)
        /\ UNCHANGED <<svcVars, leads, meetings, agents>>
  /\ UNCHANGED <<svcVars, reply, now, events, body, found, idx, sel, calEvent, notified, rid, served>>

\* lead.assignedTo = selectedAgent.name; lead.save({session})
BookAssign(r) ==
  /\ pc[r] = "assign"
  /\ \/ /\ txn' = [txn EXCEPT ![r].lead.assignedTo = sel[r].agent]
        /\ pc' = [pc EXCEPT ![r] = "createMeeting"]
        /\ UNCHANGED resp
     \/ Throw(r, 500)
  /\ UNCHANGED <<svcVars, reply, now, leads, meetings, agents, events, body, found, idx, sel,
                 calEvent, notified, rid, served>>

\* the Meeting document of the booking
MeetingDoc(r) ==
  [NoMeeting EXCEPT !.assignedTo = sel[r].agent, !.dateTime = sel[r].start,
                    !.status = "Scheduled", !.createdAt = now, !.by = rid[r]]

\* Meeting.create([...], {session}), with the schema's validation
BookCreateMeeting(r) ==
  /\ pc[r] = "createMeeting"
  /\ \/ /\ ~InFuture(sel[r].start)
        /\ Throw(r, 400)
     \/ /\ InFuture(sel[r].start)
        /\ txn' = [txn EXCEPT ![r].meeting = MeetingDoc(r)]
        /\ pc' = [pc EXCEPT ![r] = "createEvent"]
        /\ UNCHANGED resp
     \/ /\ InFuture(sel[r].start)
        /\ Throw(r, 500)
  /\ UNCHANGED <<svcVars, reply, now, leads, meetings, agents, events, body, found, idx, sel,
                 calEvent, notified, rid, served>>

\* googleCalendar.createEvent inside try/catch: a throw leaves eventId null
BookCreateEvent(r) ==
  /\ pc[r] = "createEvent"
  /\ \E fails \in BOOLEAN :
       IF CredentialsThrow(sel[r].agent, fails)
       THEN /\ calEvent' = [calEvent EXCEPT ![r] = "null"]
            /\ UNCHANGED events
       ELSE /\ calEvent' = [calEvent EXCEPT ![r] = "event"]
            /\ events' = events \cup
                 {[agent |-> sel[r].agent, start |-> sel[r].start,
                   by |-> rid[r]]}
  /\ pc' = [pc EXCEPT ![r] = "saveMeeting"]
  /\ UNCHANGED <<svcVars, reply, now, leads, meetings, agents, body, txn, found, idx, sel,
                 notified, resp, rid, served>>

\* an assignment to a document path: in strict mode a path the schema does
\* not have is not stored
SetPath(doc, path, value) ==
  IF path \in MeetingSchemaPaths THEN [doc EXCEPT ![path] = value] ELSE doc

\* meeting[0].calendarEventId = ...; meeting[0].save({session})
BookSaveMeeting(r) ==
  /\ pc[r] = "saveMeeting"
  /\ \/ /\ pc' = [pc EXCEPT ![r] = "saveAgent"]
        /\ txn' = [txn EXCEPT ![r].meeting =
                     SetPath(@, "calendarEventId", calEvent[r])]
        /\ UNCHANGED resp
     \/ Throw(r, 500)
  /\ UNCHANGED <<svcVars, reply, now, leads, meetings, agents, events, body, found, idx, sel,
                 calEvent, notified, rid, served>>

\* the Agent document was changed since the snapshot, or is staged elsewhere
WriteConflict(r, a) == a \in txn[r].stale \/ AgentStagedElsewhere(r, a)

\* selectedAgent.totalMeetings += 1; selectedAgent.save({session})
BookSaveAgent(r) ==
  /\ pc[r] = "saveAgent"
  /\ \/ /\ WriteConflict(r, sel[r].agent)
        /\ Throw(r, 500)
     \/ /\ ~WriteConflict(r, sel[r].agent)
        /\ txn' = [txn EXCEPT ![r].agent = sel[r].agent,
                              ![r].total = agents[sel[r].agent].totalMeetings + 1]
        /\ pc' = [pc EXCEPT ![r] = "notify"]
        /\ UNCHANGED resp
     \/ /\ ~WriteConflict(r, sel[r].agent)
        /\ Throw(r, 500)
  /\ UNCHANGED <<svcVars, reply, now, leads, meetings, agents, events, body, found, idx, sel,
                 calEvent, notified, rid, served>>

\* (mutant) a notification block without its try/catch
BookNotifyUncaught(r) ==
  /\ pc[r] = "notify"
  /\ \/ /\ notified' = [notified EXCEPT ![r] = "sent"]
        /\ pc' = [pc EXCEPT ![r] = "commit"]
        /\ UNCHANGED <<svcVars, txn, resp>>
     \/ /\ notified' = [notified EXCEPT ![r] = "failed"]
        /\ Throw(r, 500)
  /\ UNCHANGED <<svcVars, reply, now, leads, meetings, agents, events, body, found, idx,
                 sel, calEvent, rid, served>>

\* the notification block: every throw in it is caught
BookNotify(r) ==
  /\ pc[r] = "notify"
  /\ \E ok \in BOOLEAN :
       notified' = [notified EXCEPT ![r] = IF ok THEN "sent" ELSE "failed"]
  /\ pc' = [pc EXCEPT ![r] = "commit"]
  /\ UNCHANGED <<svcVars, reply, now, leads, meetings, agents, events, body, txn, found, idx,
                 sel, calEvent, resp, rid, served>>

\* session.commitTransaction() and the 201 response
BookCommit(r) ==
  /\ pc[r] = "commit"
  /\ \/ Commit(r, 201, "fully_booked")
     \/ /\ Throw(r, 500)
        /\ UNCHANGED <<svcVars, leads, meetings, agents>>
  /\ UNCHANGED <<svcVars, reply, now, events, body, found, idx, sel, calEvent, notified, rid, served>>

\* handleWebhookLead: the paths of the Lead schema; externalId and
\* sourceSystem are not among them
LeadSchemaPaths == {"name", "email", "phone", "status", "source", "assignedTo",
                    "lastContacted", "budget", "preferredPropertyType",
                    "timeline", "notes"}
ExternalIds == {Absent, "crm-1"}

\* lead[path] = value on a Lead document (strict mode); a field the body
\* does not have is not assigned
SetLeadPath(doc, path, value) ==
  IF value # Absent /\ path \in LeadSchemaPaths
  THEN [doc EXCEPT ![path] = value] ELSE doc

\* the answer of a webhook submission; again: the submission before it
\* had the same email
WebhookReply(e, src, ext, code, action) ==
  [op |-> "webhook", again |-> (reply.op = "webhook" /\ reply.email = e),
   email |-> e, source |-> src, externalId |-> ext,
   code |-> code, action |-> action, booking |-> 0]

\* POST /api/leads/webhook: an existing Lead is updated and saved, a new
\* one is created and, with propertyId and preferredDateTime in the body,
\* handed to createAutomatedBooking; a ValidationError of save or create is
\* answered 400
WebhookLead(r, e, src, ext, book) ==
  /\ \/ /\ LeadByEmail(leads, e) # {}
        /\ IF src \in SourceEnum
           THEN /\ \E i \in LeadByEmail(leads, e) :
                     leads' = [leads EXCEPT ![i] =
                                 SetLeadPath(
                                   [SetLeadPath(@, "source", src)
                                      EXCEPT !.lastContacted = now],
                                   "externalId", ext)]
                /\ reply' = WebhookReply(e, src, ext, 200, "updated")
           ELSE /\ reply' = WebhookReply(e, src, ext, 400, "none")
                /\ UNCHANGED leads
        /\ UNCHANGED <<svcVars, now, meetings, agents, events, reqVars>>
     \/ /\ LeadByEmail(leads, e) = {}
        /\ ~(src \in SourceEnum /\ EmailMatches(e))
        /\ reply' = WebhookReply(e, src, ext, 400, "none")
        /\ UNCHANGED <<svcVars, now, leads, meetings, agents, events, reqVars>>
     \/ /\ LeadByEmail(leads, e) = {}
        /\ src \in SourceEnum /\ EmailMatches(e)
        /\ Len(leads) < MaxLeadDocs
        /\ ~LeadStagedElsewhere(0, e)
        /\ leads' = Append(leads, SetLeadPath(LeadDoc(e, "Auto-assigned", src, 0),
                                              "externalId", ext))
        /\ reply' = [WebhookReply(e, src, ext, 201, "created")
                       EXCEPT !.booking = IF book THEN served + 1 ELSE 0]
        /\ IF book
           THEN /\ StartBooking(r, [name |-> TRUE, email |-> LowerCase(e),
                                    propertyId |-> "P1",
                                    preferredDateTime |-> 600])
                /\ UNCHANGED <<svcVars, now, meetings, agents, events>>
           ELSE UNCHANGED <<svcVars, now, meetings, agents, events, reqVars>>

\* GET /api/booking/available-slots: the same agent query, without session
SlotsQuery(r, pid) ==
  /\ pc[r] = "idle"
  /\ pc' = [pc EXCEPT ![r] = "slotsDone"]
  /\ IF pid = Missing
     THEN /\ resp' = [resp EXCEPT ![r] = [NoResp EXCEPT !.code = 400]]
          /\ UNCHANGED found
     ELSE IF pid \notin Properties
          THEN /\ resp' = [resp EXCEPT ![r] = [NoResp EXCEPT !.code = 404]]
               /\ UNCHANGED found
          ELSE /\ resp' = [resp EXCEPT ![r] = [NoResp EXCEPT !.code = 200]]
               /\ found' = [found EXCEPT ![r] = BookableAgents(agents)]
  /\ UNCHANGED <<svcVars, reply, now, leads, meetings, agents, events, body, txn, idx, sel,
                 calEvent, notified, rid, served>>

\* the answer of the slot query has been delivered
SlotsEnd(r) ==
  /\ pc[r] = "slotsDone"
  /\ pc' = [pc EXCEPT ![r] = "idle"]
  /\ found' = [found EXCEPT ![r] = <<>>]
  /\ resp' = [resp EXCEPT ![r] = NoResp]
  /\ UNCHANGED <<svcVars, reply, now, leads, meetings, agents, events, body, txn, idx, sel,
                 calEvent, notified, rid, served>>

\* one step of request r after its start
BookStep(r) ==
  \/ BookDedupe(r)
  \/ BookCreateLead(r)
  \/ BookDiscover(r)
  \/ BookPreferred(r)
  \/ BookSearch(r)
  \/ BookCommitLeadOnly(r)
  \/ BookAssign(r)
  \/ BookCreateMeeting(r)
  \/ BookCreateEvent(r)
  \/ BookSaveMeeting(r)
  \/ BookSaveAgent(r)
  \/ BookNotify(r)
  \/ BookCommit(r)

\* --------------------------------------------------------- specifications
\* complete request bodies, and bodies with one field missing or unknown
GoodBodies ==
  [name : {TRUE}, email : Emails, propertyId : Properties,
   preferredDateTime : PrefTimes \cup {NoPref}]

Complete == [name |-> TRUE, email |-> "b@x.com", propertyId |-> "P1",
             preferredDateTime |-> NoPref]

BadBodies ==
  {[Complete EXCEPT !.name = FALSE], [Complete EXCEPT !.email = Missing],
   [Complete EXCEPT !.propertyId = Missing],
   [Complete EXCEPT !.propertyId = "P9"]}

Bodies == GoodBodies \cup BadBodies

\* ------------------------------------------------ calls of the services
\* the windows, dates and agent preferences the services are called with
ProbeTimes == {540, 600, 660}
ProbeDates == {585, 7785}
AgentConfigs == {[duration |-> 60, buffer |-> 15],
                 [duration |-> 240, buffer |-> 60]}

\* googleCalendar.checkAvailability(agentId, start, end)
CheckProbe(a, s, fails) ==
  /\ reply' = [op |-> "checkAvailability", agent |-> a, start |-> s,
               end |-> s + MeetingDuration, fails |-> fails,
               out |-> CheckAvailability(a, s, s + MeetingDuration, fails)]
  /\ UNCHANGED <<svcVars, now, leads, meetings, agents, events, reqVars>>

\* googleCalendar.getAvailableSlots(agentId, date, duration)
SlotsProbe(a, date, c, fails) ==
  /\ reply' = [op |-> "getAvailableSlots", agent |-> a, date |-> date,
               duration |-> c.duration, fails |-> fails, threw |-> FALSE,
               examined |-> ExaminedCandidates(a, date, c.duration, fails),
               out |-> GetAvailableSlots(a, date, c.duration, fails)]
  /\ UNCHANGED <<svcVars, now, leads, meetings, agents, events, reqVars>>

\* agent.getNextAvailableSlots(startDate): the slot times, each the start
\* of a window of meetingDuration
NextSlotsProbe(a, date, c) ==
  /\ agents[a].exists
  /\ LET res == GetNextAvailableSlots(date, SlotCount, c.duration, c.buffer, now)
     IN reply' = [op |-> "getNextAvailableSlots", agent |-> a, date |-> date,
                  duration |-> c.duration, fails |-> FALSE, threw |-> res.threw,
                  out |-> [i \in 1..Len(res.slots) |->
                             [start |-> res.slots[i],
                              end |-> res.slots[i] + c.duration]]]
  /\ UNCHANGED <<svcVars, now, leads, meetings, agents, events, reqVars>>

\* the while loops of the two generators (googleCalendar.js:176-191,
\* upload.js:209-217) on their own, for the working hours and preferences
\* the Agent schema admits
WorkingHours == {[start |-> 540, end |-> 1020], [start |-> 540, end |-> 540],
                 [start |-> 1020, end |-> 540], [start |-> 0, end |-> 1439]}
LoopConfigs == AgentConfigs \cup {[duration |-> 15, buffer |-> 0]}

LoopProbe(h, c) ==
  /\ reply' = [op |-> "slotLoop", hours |-> h, duration |-> c.duration,
               buffer |-> c.buffer,
               iterations |-> LoopIterations(h.start, h.end,
                                             SlotStep(c.duration, c.buffer), 0)]
  /\ UNCHANGED <<svcVars, now, leads, meetings, agents, events, reqVars>>

\* an Agent collection as the administration leaves it: every agent exists,
\* active, with the calendar connected or not
LinkedAgent == CallbackDoc(NewAgent(TRUE))
SeededAgents == [Agents -> {NewAgent(TRUE), LinkedAgent}]

\* ------------------------------------------------- singleton services
\* calendar.freebusy.query of checkAvailability, calendar.events.insert of
\* createEvent
CallKinds == {"freebusy", "insert"}

NoCall == [pc |-> "idle", agent |-> "none", kind |-> "none",
           expired |-> FALSE, with |-> "none"]

SocketIds == {"s1", "s2", "s3"}
Users == {"u1", "u2"}

NoSocket == [state |-> "none", userId |-> Absent]

\* new GoogleCalendarService() and new SocketService(): no credentials, no
\* call in flight, an empty connectedUsers map, no socket
InitServices ==
  /\ oauth2Client = "none"
  /\ calls = [c \in Procs |-> NoCall]
  /\ connectedUsers = [u \in Users |-> Absent]
  /\ sockets = [s \in SocketIds |-> NoSocket]

InitRequests ==
  /\ pc = [r \in Procs |-> "idle"]
  /\ body = [r \in Procs |-> NoBody]
  /\ txn = [r \in Procs |-> NoTxn]
  /\ found = [r \in Procs |-> <<>>]
  /\ idx = [r \in Procs |-> 1]
  /\ sel = [r \in Procs |-> NoSel]
  /\ calEvent = [r \in Procs |-> "none"]
  /\ notified = [r \in Procs |-> "none"]
  /\ resp = [r \in Procs |-> NoResp]
  /\ rid = [r \in Procs |-> 0]
  /\ served = 0
  /\ reply = NoReply
  /\ InitServices

Init ==
  /\ now = 585
  /\ leads = <<>>
  /\ meetings = <<>>
  /\ agents \in SeededAgents
  /\ events = {}
  /\ InitRequests

\* the next booking request arrives at slot r
Serve(r, bodies) ==
  /\ served < MaxServed
  /\ \E b \in bodies : BookStart(r, b)

\* requests served one after the other, between steps of the environment
Next ==
  \/ Serve(1, Bodies)
  \/ BookStep(1)
  \/ BookEnd(1)
  \/ Tick
  \/ \E a \in Agents, t \in PrefTimes : ExternalEvent(a, t)
  \/ \E e \in Emails : CreateLead(e)

Spec == Init /\ [][Next]_vars

\* the same requests, the first of them before the working day begins
InitMorning ==
  /\ now = 525
  /\ leads = <<>>
  /\ meetings = <<>>
  /\ agents \in SeededAgents
  /\ events = {}
  /\ InitRequests

SpecMorning == InitMorning /\ [][Next]_vars

\* manual scheduling next to the automated bookings
SchedBodies == {[Complete EXCEPT !.preferredDateTime = p] : p \in {600, NoPref}}

InitSched ==
  /\ now = 585
  /\ leads = <<>>
  /\ meetings = <<>>
  /\ agents = [a \in Agents |-> LinkedAgent]
  /\ events = {}
  /\ InitRequests

NextSched ==
  \/ \E a \in Agents, t \in PrefTimes : CreateMeeting(a, t)
  \/ \E i \in DOMAIN meetings, a \in Agents, t \in PrefTimes : UpdateMeeting(i, a, t)
  \/ \E i \in DOMAIN meetings, st \in {"Scheduled", "Completed", "Missed"} :
        UpdateMeetingStatus(i, st)
  \/ Serve(1, SchedBodies)
  \/ BookStep(1)
  \/ BookEnd(1)
  \/ Tick

SpecSched == InitSched /\ [][NextSched]_vars

\* two booking requests in flight at once, next to the other lead intakes;
\* Jane is the only agent with a calendar
ConcBodies(r) ==
  {[Complete EXCEPT !.email = e, !.preferredDateTime = 600] :
     e \in IF r = 1 THEN {"a@x.com"} ELSE {"A@X.com", "b@x.com"}}

InitConc ==
  /\ now = 585
  /\ leads = <<>>
  /\ meetings = <<>>
  /\ agents = [a \in Agents |-> IF a = "Jane" THEN LinkedAgent ELSE NewAgent(TRUE)]
  /\ events = {}
  /\ InitRequests

\* a request arrives before any request in flight has touched the store
ConcStart(r) ==
  /\ \A q \in Procs : pc[q] \in {"idle", "dedupe"}
  /\ \E b \in ConcBodies(r) : BookStart(r, b)

NextConc ==
  \/ \E r \in Procs : ConcStart(r)
  \/ \E r \in Procs : BookStep(r)
  \/ \E e \in Emails : CreateLead(e)
  \/ \E r \in Procs, e \in Emails, src \in WebhookSources, book \in BOOLEAN :
        WebhookLead(r, e, src, Absent, book)

SpecConc == InitConc /\ [][NextConc]_vars

\* the calendar services called directly, next to the administration of
\* the agents and the life of their calendars
\* ------------------------------------------ calendar calls in flight
\* checkAvailability(agentId, ...) or createEvent(agentId, ...) is called: it
\* enters setAgentCredentials and awaits Agent.findById(agentId)
CallStart(c, a, kind, expired) ==
  /\ calls[c].pc = "idle"
  /\ calls' = [calls EXCEPT ![c] = [pc |-> "findById", agent |-> a,
                                    kind |-> kind, expired |-> expired,
                                    with |-> "none"]]
  /\ UNCHANGED <<oauth2Client, connectedUsers, sockets>>
  /\ UNCHANGED <<reply, now, leads, meetings, agents, events, reqVars>>

\* setAgentCredentials after Agent.findById resolved: throws for an agent
\* without a token; for an expired token it calls refreshAccessToken, which
\* awaits Agent.findById again; otherwise it gives the agent's tokens to the
\* shared client and returns
SetAgentCredentials(c) ==
  /\ calls[c].pc = "findById"
  /\ IF ~(agents[calls[c].agent].exists /\ agents[calls[c].agent].googleAccessToken)
     THEN /\ calls' = [calls EXCEPT ![c].pc = "failed"]
          /\ UNCHANGED oauth2Client
     ELSE IF calls[c].expired
          THEN /\ calls' = [calls EXCEPT ![c].pc = "refresh"]
               /\ UNCHANGED oauth2Client
          ELSE /\ oauth2Client' = calls[c].agent
               /\ calls' = [calls EXCEPT ![c].pc = "credentialed"]
  /\ UNCHANGED <<connectedUsers, sockets>>
  /\ UNCHANGED <<reply, now, leads, meetings, agents, events, reqVars>>

\* refreshAccessToken after its Agent.findById resolved: gives the agent's
\* refresh token to the shared client and awaits oauth2Client.refreshAccessToken()
RefreshAccessToken(c) ==
  /\ calls[c].pc = "refresh"
  /\ oauth2Client' = calls[c].agent
  /\ calls' = [calls EXCEPT ![c].pc = "refreshing"]
  /\ UNCHANGED <<connectedUsers, sockets>>
  /\ UNCHANGED <<reply, now, leads, meetings, agents, events, reqVars>>

\* the refreshed credentials are given to the shared client; the agent is
\* updated and fetched again (awaits)
RefreshedCredentials(c) ==
  /\ calls[c].pc = "refreshing"
  /\ oauth2Client' = calls[c].agent
  /\ calls' = [calls EXCEPT ![c].pc = "refetch"]
  /\ UNCHANGED <<connectedUsers, sockets>>
  /\ UNCHANGED <<reply, now, leads, meetings, agents, events, reqVars>>

\* setAgentCredentials after the second Agent.findById: the updated agent's
\* tokens are given to the shared client
SetUpdatedCredentials(c) ==
  /\ calls[c].pc = "refetch"
  /\ oauth2Client' = calls[c].agent
  /\ calls' = [calls EXCEPT ![c].pc = "credentialed"]
  /\ UNCHANGED <<connectedUsers, sockets>>
  /\ UNCHANGED <<reply, now, leads, meetings, agents, events, reqVars>>

\* the caller resumes after `await this.setAgentCredentials(agentId)` and
\* issues calendar.freebusy.query or calendar.events.insert through
\* this.calendar, whose auth is the shared client
IssueRequest(c) ==
  /\ calls[c].pc = "credentialed"
  /\ calls' = [calls EXCEPT ![c].pc = "issued", ![c].with = oauth2Client]
  /\ UNCHANGED <<oauth2Client, connectedUsers, sockets>>
  /\ UNCHANGED <<reply, now, leads, meetings, agents, events, reqVars>>

\* the call returns (or its catch has run)
CallEnd(c) ==
  /\ calls[c].pc \in {"issued", "failed"}
  /\ calls' = [calls EXCEPT ![c] = NoCall]
  /\ UNCHANGED <<oauth2Client, connectedUsers, sockets>>
  /\ UNCHANGED <<reply, now, leads, meetings, agents, events, reqVars>>

InitOAuth ==
  /\ now = 585
  /\ leads = <<>>
  /\ meetings = <<>>
  /\ agents \in SeededAgents
  /\ events = {}
  /\ InitRequests

NextOAuth ==
  \/ \E c \in Procs, a \in Agents, kind \in CallKinds, expired \in BOOLEAN :
        CallStart(c, a, kind, expired)
  \/ \E c \in Procs : SetAgentCredentials(c)
  \/ \E c \in Procs : RefreshAccessToken(c)
  \/ \E c \in Procs : RefreshedCredentials(c)
  \/ \E c \in Procs : SetUpdatedCredentials(c)
  \/ \E c \in Procs : IssueRequest(c)
  \/ \E c \in Procs : CallEnd(c)

SpecOAuth == InitOAuth /\ [][NextOAuth]_vars

\* ------------------------------------------------------ socket service
\* io.on('connection', socket => ...)
Connection(s) ==
  /\ sockets[s].state = "none"
  /\ sockets' = [sockets EXCEPT ![s].state = "connected"]
  /\ UNCHANGED <<oauth2Client, calls, connectedUsers>>
  /\ UNCHANGED <<reply, now, leads, meetings, agents, events, reqVars>>

\* socket.on('join', userData => ...)
Join(s, u) ==
  /\ sockets[s].state = "connected"
  /\ connectedUsers' = [connectedUsers EXCEPT ![u] = s]
  /\ sockets' = [sockets EXCEPT ![s].userId = u]
  /\ UNCHANGED <<oauth2Client, calls>>
  /\ UNCHANGED <<reply, now, leads, meetings, agents, events, reqVars>>

\* socket.on('disconnect', () => ...)
Disconnect(s) ==
  /\ sockets[s].state = "connected"
  /\ sockets' = [sockets EXCEPT ![s].state = "closed"]
  /\ IF sockets[s].userId # Absent
     THEN connectedUsers' = [connectedUsers EXCEPT ![sockets[s].userId] = Absent]
     ELSE UNCHANGED connectedUsers
  /\ UNCHANGED <<oauth2Client, calls>>
  /\ UNCHANGED <<reply, now, leads, meetings, agents, events, reqVars>>

\* isUserConnected(userId)
isUserConnected(u) == connectedUsers[u] # Absent

\* notifyUser(userId, event, data): its return value
notifyUser(u) == connectedUsers[u] # Absent

\* io.to(socketId).emit(event, data) of notifyUser reaches a socket that is
\* still connected
NotifyUserDelivers(u) ==
  /\ notifyUser(u)
  /\ sockets[connectedUsers[u]].state = "connected"

\* the sockets that joined as u and have not disconnected
LiveSockets(u) ==
  {s \in SocketIds : sockets[s].state = "connected" /\ sockets[s].userId = u}

InitSockets ==
  /\ now = 585
  /\ leads = <<>>
  /\ meetings = <<>>
  /\ agents = [a \in Agents |-> NewAgent(TRUE)]
  /\ events = {}
  /\ InitRequests

NextSockets ==
  \/ \E s \in SocketIds : Connection(s)
  \/ \E s \in SocketIds, u \in Users : Join(s, u)
  \/ \E s \in SocketIds : Disconnect(s)

SpecSockets == InitSockets /\ [][NextSockets]_vars

InitOracle ==
  /\ now = 585
  /\ leads = <<>>
  /\ meetings = <<>>
  /\ agents \in SeededAgents
  /\ events = {}
  /\ InitRequests

NextOracle ==
  \/ \E a \in Agents, s \in ProbeTimes, fails \in BOOLEAN :
        CheckProbe(a, s, fails)
  \/ \E a \in Agents, date \in ProbeDates, c \in AgentConfigs, fails \in BOOLEAN :
        SlotsProbe(a, date, c, fails)
  \/ \E a \in Agents, date \in ProbeDates, c \in AgentConfigs :
        NextSlotsProbe(a, date, c)
  \/ \E h \in WorkingHours, c \in LoopConfigs : LoopProbe(h, c)
  \/ \E a \in Agents, t \in PrefTimes : ExternalEvent(a, t)
  \/ \E a \in Agents, active \in BOOLEAN, cal \in CalBodies :
        UpdateAgent(a, active, cal)
  \/ \E a \in Agents : HandleCallback(a)
  \/ \E a \in Agents : DisconnectCalendar(a)
  \/ Tick

SpecOracle == InitOracle /\ [][NextOracle]_vars

\* webhook submissions without propertyId, next to the manual lead intake
InitWebhook ==
  /\ now = 585
  /\ leads = <<>>
  /\ meetings = <<>>
  /\ agents \in SeededAgents
  /\ events = {}
  /\ InitRequests

NextWebhook ==
  \/ \E e \in Emails, src \in WebhookSources, ext \in ExternalIds :
        WebhookLead(1, e, src, ext, FALSE)
  \/ \E e \in Emails : CreateLead(e)
  \/ Tick

SpecWebhook == InitWebhook /\ [][NextWebhook]_vars

\* the lead handlers of leadController
LeadIds == 1..(MaxLeadDocs + 1)

NextLeads ==
  \/ \E e \in Emails : CreateLead(e)
  \/ \E e \in Emails, st \in StatusBodies : CreateLeadWith(e, st)
  \/ \E i \in LeadIds, st \in StatusBodies : UpdateLead(i, st)
  \/ \E i \in LeadIds, st \in StatusBodies : UpdateLeadStatus(i, st)
  \/ \E e \in Emails, src \in WebhookSources :
        WebhookLead(2, e, src, Absent, FALSE)
  \/ Tick

SpecLeads == InitSched /\ [][NextLeads]_vars

\* manual scheduling alone, with appointments one hour apart
ManualTimes == {600, 660, 690}

InitManual ==
  /\ now = 585
  /\ leads = <<>>
  /\ meetings = <<>>
  /\ agents = [a \in Agents |-> LinkedAgent]
  /\ events = {}
  /\ InitRequests

NextManual ==
  \/ \E a \in Agents, t \in ManualTimes : CreateMeeting(a, t)
  \/ \E i \in DOMAIN meetings, st \in {"Scheduled", "Completed", "Missed"} :
        UpdateMeetingStatus(i, st)
  \/ Tick

SpecManual == InitManual /\ [][NextManual]_vars

\* the two ways a Meeting is created, while the clock moves
NextCreate ==
  \/ \E a \in Agents, t \in PrefTimes : CreateMeeting(a, t)
  \/ Serve(1, SchedBodies)
  \/ BookStep(1)
  \/ BookEnd(1)
  \/ Tick

SpecCreate == InitSched /\ [][NextCreate]_vars

\* agent administration next to a booking request and a slot query
InitAdmin ==
  /\ now = 585
  /\ leads = <<>>
  /\ meetings = <<>>
  /\ agents = [a \in Agents |-> NoAgentDoc]
  /\ events = {}
  /\ InitRequests

NextAdmin ==
  \/ \E a \in Agents, active \in BOOLEAN, cal \in CalBodies :
        CreateAgent(a, active, cal)
  \/ \E a \in Agents, active \in BOOLEAN, cal \in CalBodies :
        UpdateAgent(a, active, cal)
  \/ \E a \in Agents : HandleCallback(a)
  \/ \E a \in Agents : DisconnectCalendar(a)
  \/ Serve(1, SchedBodies)
  \/ BookStep(1)
  \/ BookEnd(1)
  \/ \E pid \in PropertyIds \cup {Missing} : SlotsQuery(2, pid)
  \/ SlotsEnd(2)

SpecAdmin == InitAdmin /\ [][NextAdmin]_vars

\* ------------------------------------------------------------- properties
\* totalMeetings of every agent counts the booked meetings of the store
TotalsMatch ==
  \A a \in Agents :
    agents[a].totalMeetings =
      Cardinality({i \in DOMAIN meetings :
                     meetings[i].by # 0 /\ meetings[i].assignedTo = a})

LeadsOf(r) == {i \in DOMAIN leads : leads[i].by = rid[r]}
MeetingsOf(r) == {i \in DOMAIN meetings : meetings[i].by = rid[r]}
NothingStaged(r) ==
  txn[r].lead = NoLead /\ txn[r].meeting = NoMeeting /\ txn[r].agent = NoAgent

FieldMissing(b) == ~b.name \/ b.email = Missing \/ b.propertyId = Missing

\* a step after the transaction was opened has thrown
StepFailed(r) ==
  /\ pc[r] = "done"
  /\ \/ resp[r].code = 500
     \/ resp[r].code = 400 /\ ~FieldMissing(body[r])

C2_NoOverlappingScheduled ==
  \A i, j \in DOMAIN meetings :
    ( /\ i < j
      /\ meetings[i].status = "Scheduled" /\ meetings[j].status = "Scheduled"
      /\ meetings[i].assignedTo = meetings[j].assignedTo )
    => \/ meetings[i].dateTime + 60 <= meetings[j].dateTime
       \/ meetings[j].dateTime + 60 <= meetings[i].dateTime

\* C3: of two booking requests in flight together, for different lead
\* emails, the same preferred time and the same single bookable agent, at
\* most one ends fully_booked for that agent and that window.
C3_AtMostOneBooked ==
  ~ ( /\ \A r \in Procs :
           pc[r] = "done" /\ resp[r].bookingStatus = "fully_booked"
      /\ LowerCase(body[1].email) # LowerCase(body[2].email)
      /\ body[1].preferredDateTime = body[2].preferredDateTime
      /\ sel[1].agent = sel[2].agent
      /\ sel[1].start = sel[2].start )

\* C4: every stored Lead email is lower-case, and no two Leads have the
\* same email up to case, under every interleaving of createLead,
\* createAutomatedBooking and handleWebhookLead.
C4_EmailsLowerCaseUnique ==
  /\ \A i \in DOMAIN leads : leads[i].email \in {"a@x.com", "b@x.com"}
  /\ \A i, j \in DOMAIN leads :
       i # j => LowerCase(leads[i].email) # LowerCase(leads[j].email)

\* C4 witness: the booking that spelt the email in upper case stored it in
\* lower case, and the concurrent booking with the same email was refused
C4_Witness ==
  \E r \in Procs, q \in Procs :
    /\ r # q /\ pc[r] = "done" /\ pc[q] = "done"
    /\ body[r].email = "A@X.com" /\ body[q].email = "a@x.com"
    /\ \E i \in DOMAIN leads : leads[i].by = rid[r] /\ leads[i].email = "a@x.com"
    /\ resp[q].code \in {409, 500}
    /\ Len(leads) = 2

\* C5: a booking request whose email matches an existing Lead is answered
\* 409 with that lead, and writes nothing: no Lead, no Meeting, no counter.
C5_DuplicateIs409 ==
  [][\A r \in Procs :
       ( /\ pc[r] = "dedupe" /\ pc'[r] # "dedupe"
         /\ \E i \in DOMAIN leads : leads[i].email = LowerCase(body[r].email) )
       => /\ resp'[r].code = 409
          /\ resp'[r].lead = LowerCase(body[r].email)
          /\ pc'[r] = "done"
          /\ <<leads, meetings, agents>>' = <<leads, meetings, agents>>
          /\ NothingStaged(r)'
  ]_vars

\* C5 witness: the request spelt the email of the stored lead in upper case
C5_Witness ==
  \E r \in Procs :
    /\ resp[r].code = 409 /\ body[r].email = "A@X.com"
    /\ \E i \in DOMAIN leads : leads[i].email = "a@x.com"

C7_DiscoveryIsActiveAndLinked ==
  [][\A r \in Procs :
       ( \/ pc[r] = "dedupe" /\ pc'[r] = "createLead"
         \/ pc[r] = "idle" /\ pc'[r] = "slotsDone" /\ resp'[r].code = 200 )
       => Range(found'[r]) =
            {a \in Agents : agents[a].isActive /\ IsConnected(agents[a])}
  ]_vars

\* the calendar of agent a has no event inside [s, e)
CalendarFree(a, s, e) ==
  \A ev \in events :
    ev.agent = a => (ev.start >= e \/ ev.start + MeetingDuration <= s)

\* C8: at the preferred time the agents are tried in discovery order; the
\* agent tried is selected with exactly [preferred, preferred + 60 min)
\* when its calendar is free, selection never picks another agent or
\* window, and the next agent is tried only after a busy answer.
C8_FirstFitAtPreferred ==
  [][\A r \in Procs :
       (pc[r] = "preferred" /\ <<pc[r], idx[r], sel[r]>>' # <<pc[r], idx[r], sel[r]>>)
       => LET a == found[r][idx[r]]
              p == body[r].preferredDateTime
              window == [agent |-> a, start |-> p, end |-> p + 60]
          IN /\ CalendarFree(a, p, p + 60) => sel'[r] = window
             /\ sel'[r] # NoSel => sel'[r] = window /\ pc'[r] = "assign"
             /\ sel'[r] = NoSel =>
                  /\ ~CalendarFree(a, p, p + 60)
                  /\ \/ idx'[r] = idx[r] + 1 /\ pc'[r] = "preferred"
                     \/ idx[r] = Len(found[r]) /\ pc'[r] = "search"
  ]_vars

\* C8 witness: the first agent is busy at the preferred time, the second
\* one was selected
C8_Witness ==
  \E r \in Procs :
    /\ found[r] = <<"Jane", "Joe">>
    /\ sel[r] = [agent |-> "Joe", start |-> body[r].preferredDateTime,
                 end |-> body[r].preferredDateTime + 60]
    /\ ~CalendarFree("Jane", sel[r].start, sel[r].end)

\* C9: without a match at the preferred time, the first agent in discovery
\* order whose free-slot list of the search day is not empty is selected
\* with its earliest slot; so a booking ends lead_only only if no candidate
\* agent has a free slot that day.
C9_LeadOnlyMeansNoFreeSlot ==
  \A r \in Procs :
    (pc[r] = "done" /\ resp[r].bookingStatus = "lead_only") =>
      \A i \in 1..Len(found[r]) :
        SlotsOfDay(found[r][i], StartDate(r), MeetingDuration, FALSE) = <<>>

\* C11: a booking without preferred time, made on a working day while a
\* bookable agent has no busy event, ends 201 fully_booked with the meeting
\* at the first generated slot of the day, workingHours.start (09:00).
C11_FirstSlotOfDayBooked ==
  \A r \in Procs :
    ( /\ pc[r] = "done" /\ resp[r].code \in {200, 201}
      /\ body[r].preferredDateTime = NoPref
      /\ WeekdayOf(now) \in WorkingDays
      /\ \E i \in 1..Len(found[r]) :
           \A ev \in events : ev.agent = found[r][i] => ev.by = rid[r] )
    => /\ resp[r].bookingStatus = "fully_booked"
       /\ \E i \in MeetingsOf(r) :
            meetings[i].dateTime = DayOf(now) * 1440 + 540

\* C12: when createEvent throws during a booking, the booking goes on: it
\* commits its Lead and its Meeting and answers 201 fully_booked with a
\* null calendar link, and the stored Meeting refers to no calendar event.
C12_EventFailureIsNotFatal ==
  \A r \in Procs :
    calEvent[r] = "null" =>
      /\ pc[r] # "done" =>
           /\ txn[r].state = "active"
           /\ txn[r].lead # NoLead /\ txn[r].meeting # NoMeeting
      /\ (pc[r] = "done" /\ resp[r].code \notin {400, 500}) =>
           /\ resp[r].code = 201 /\ resp[r].bookingStatus = "fully_booked"
           /\ resp[r].calendarLink = "null"
           /\ Cardinality(LeadsOf(r)) = 1 /\ Cardinality(MeetingsOf(r)) = 1
           /\ \A i \in MeetingsOf(r) : meetings[i].calendarEventId = "none"

\* C12 witness: createEvent threw and the booking was answered 201
C12_Witness ==
  \E r \in Procs :
    pc[r] = "done" /\ calEvent[r] = "null" /\ resp[r].code = 201

\* C13: no notification of a booking is dispatched before its transaction
\* has committed, and none is ever sent for a booking that ends aborted.
C13_NotifyOnlyAfterCommit ==
  \A r \in Procs : notified[r] = "sent" => txn[r].state = "committed"

\* C14: a throw in the notification block leaves the booking as it was: the
\* request goes on to its commit with the same staged writes, and the
\* commit stores the Lead, the Meeting and the counter increment and
\* answers 201 fully_booked.
C14_NotifyFailureIsNotFatal ==
  [][\A r \in Procs :
       /\ (pc[r] = "notify" /\ pc'[r] # "notify") =>
            /\ pc'[r] = "commit"
            /\ txn'[r] = txn[r] /\ resp'[r] = resp[r]
            /\ <<leads, meetings, agents>>' = <<leads, meetings, agents>>
       /\ (pc[r] = "commit" /\ notified[r] = "failed"
           /\ txn'[r].state = "committed") =>
            /\ resp'[r].code = 201 /\ resp'[r].bookingStatus = "fully_booked"
            /\ leads' = Append(leads, txn[r].lead)
            /\ meetings' = Append(meetings, txn[r].meeting)
            /\ agents'[sel[r].agent].totalMeetings =
                 agents[sel[r].agent].totalMeetings + 1
  ]_vars

\* C14 witness: the notifications failed and the booking was answered 201
C14_Witness ==
  \E r \in Procs :
    /\ pc[r] = "done" /\ notified[r] = "failed" /\ resp[r].code = 201
    /\ MeetingsOf(r) # {} /\ LeadsOf(r) # {}

\* C15: a request is answered 201 fully_booked exactly when its transaction
\* commits one new Lead and one new Meeting (Scheduled, at the selected
\* slot's start, Meeting and Lead assigned to the selected agent) and that
\* agent's totalMeetings grows by one.
C15_FullyBookedIffCommitted ==
  [][\A r \in Procs :
       (pc[r] # "done" /\ pc'[r] = "done") =>
         ( (resp'[r].code = 201 /\ resp'[r].bookingStatus = "fully_booked")
           <=>
           /\ txn'[r].state = "committed"
           /\ sel[r] # NoSel
           /\ Len(leads') = Len(leads) + 1
           /\ Len(meetings') = Len(meetings) + 1
           /\ SubSeq(leads', 1, Len(leads)) = leads
           /\ SubSeq(meetings', 1, Len(meetings)) = meetings
           /\ leads'[Len(leads')].by = rid[r]
           /\ leads'[Len(leads')].assignedTo = sel[r].agent
           /\ meetings'[Len(meetings')].by = rid[r]
           /\ meetings'[Len(meetings')].status = "Scheduled"
           /\ meetings'[Len(meetings')].dateTime = sel[r].start
           /\ meetings'[Len(meetings')].assignedTo = sel[r].agent
           /\ agents' = [agents EXCEPT ![sel[r].agent].totalMeetings = @ + 1] )
  ]_vars

\* C15 witness: a 201 fully_booked answer with its Lead and Meeting stored
C15_Witness ==
  \E r \in Procs :
    /\ pc[r] = "done" /\ resp[r].code = 201
    /\ resp[r].bookingStatus = "fully_booked"
    /\ Cardinality(LeadsOf(r)) = 1 /\ Cardinality(MeetingsOf(r)) = 1
    /\ agents[sel[r].agent].totalMeetings > 0

C17_OracleFailsOpen ==
  [][(reply' # reply /\ reply'.op = "checkAvailability") =>
       LET a == reply'.agent
           noIntegration ==
             \/ ~agents[a].exists
             \/ ~agents[a].googleAccessToken
             \/ agents[a].googleCalendarId \in {Absent, Null}
           busy ==
             \E ev \in events :
               /\ ev.agent = a
               /\ ev.start < reply'.end
               /\ ev.start + MeetingDuration > reply'.start
       IN reply'.out = (reply'.fails \/ noIntegration \/ ~busy)
  ]_vars

\* C17 witness: the provider call failed for a connected agent whose
\* calendar is busy in the window, and the answer was true
C17_Witness ==
  /\ reply.op = "checkAvailability"
  /\ reply.fails /\ reply.out
  /\ IsConnected(agents[reply.agent])
  /\ \E ev \in events :
       /\ ev.agent = reply.agent
       /\ ev.start < reply.end
       /\ ev.start + MeetingDuration > reply.start

\* C18: a second webhook submission of the same email leaves exactly one
\* Lead with that email, is answered with action "updated", and the fields
\* it supplies (source, externalId) are merged into that Lead.
C18_WebhookMerges ==
  ( /\ reply.op = "webhook" /\ reply.again
    /\ EmailMatches(reply.email) )
  => /\ Cardinality(LeadByEmail(leads, reply.email)) = 1
     /\ reply.code = 200 /\ reply.action = "updated"
     /\ \A i \in LeadByEmail(leads, reply.email) :
          /\ leads[i].source = reply.source
          /\ reply.externalId # Absent =>
               /\ "externalId" \in DOMAIN leads[i]
               /\ leads[i].externalId = reply.externalId

\* C19: createMeeting with a dateTime in the future answers 409 with the
\* conflicting meetings and creates nothing exactly when a Scheduled
\* meeting of the same assignedTo has a one-hour window [d, d+60) that
\* overlaps [s, s+60); otherwise, also when an existing meeting ends exactly
\* at s, it creates the meeting and answers 201.
C19_ConflictIffOverlap ==
  [][( /\ reply'.op = "createMeeting"
       /\ reply' # reply \/ Len(meetings') > Len(meetings)
       /\ InFuture(reply'.dateTime) ) =>
       LET s == reply'.dateTime
           overlapping ==
             {i \in DOMAIN meetings :
                /\ meetings[i].assignedTo = reply'.assignedTo
                /\ meetings[i].status = "Scheduled"
                /\ meetings[i].dateTime < s + OneHour
                /\ meetings[i].dateTime + OneHour > s}
       IN IF overlapping # {}
          THEN /\ reply'.code = 409 /\ reply'.conflicts = overlapping
               /\ meetings' = meetings
          ELSE /\ reply'.code = 201
               /\ Len(meetings') = Len(meetings) + 1
               /\ meetings'[Len(meetings')].dateTime = s
               /\ meetings'[Len(meetings')].assignedTo = reply'.assignedTo
  ]_vars

\* C20: every Meeting, stored or staged, created by createMeeting or by an
\* automated booking, has a dateTime strictly later than the time of its
\* creation; a booking that was rejected because its selected slot did not
\* start in the future has created no Meeting.
C20_MeetingsStartInFuture ==
  /\ \A i \in DOMAIN meetings : meetings[i].dateTime > meetings[i].createdAt
  /\ \A r \in Procs :
       /\ txn[r].meeting # NoMeeting =>
            txn[r].meeting.dateTime > txn[r].meeting.createdAt
       /\ (pc[r] = "done" /\ sel[r] # NoSel /\ resp[r].code = 400) =>
            /\ MeetingsOf(r) = {}
            /\ txn[r].meeting = NoMeeting

\* C20 witness: next to a stored meeting, a booking for a preferred time
\* that had passed selected its slot and was rejected without a Meeting
C20_Witness ==
  /\ meetings # <<>>
  /\ \E r \in Procs :
       /\ pc[r] = "done" /\ resp[r].code = 400
       /\ sel[r] # NoSel /\ sel[r].start = body[r].preferredDateTime
       /\ sel[r].start <= now
       /\ MeetingsOf(r) = {}

C22_CandidatesStepByDurationAndBuffer ==
  [][( /\ reply'.op = "getAvailableSlots" /\ reply' # reply
       /\ WeekdayOf(reply'.date) \in WorkingDays
       /\ IsConnected(agents[reply'.agent])
       /\ agents[reply'.agent].googleAccessToken
       /\ ~reply'.fails ) =>
       LET ex == reply'.examined
       IN /\ Len(ex) >= 1
          /\ ex[1] = DayOf(reply'.date) * 1440 + WorkStart
          /\ \A k \in 2..Len(ex) :
               ex[k] = ex[k - 1] + reply'.duration + BufferTime
          /\ \A i \in 1..Len(reply'.out) :
               reply'.out[i].end = reply'.out[i].start + reply'.duration
  ]_vars

\* C23: the loops of the slot generators terminate for every meetingDuration
\* in [15, 240], bufferTime in [0, 60] and working hours, and their body
\* does not run at all when workingHours.end is not later than
\* workingHours.start.
C23_SlotLoopTerminates ==
  reply.op = "slotLoop" =>
    /\ reply.iterations < MaxIterations
    /\ reply.hours.end <= reply.hours.start => reply.iterations = 0

\* C23 witness: the loop has run over a whole day in steps of 15 minutes
C23_Witness ==
  /\ reply.op = "slotLoop"
  /\ reply.duration = 15 /\ reply.buffer = 0
  /\ reply.hours.start = 0
  /\ reply.iterations = 96

\* C26: getAvailableSlots returns exactly the candidates of the day whose
\* window fits the working hours and for which checkAvailability is true
\* (every one of them when the provider is failing), in generated order.
C26_SlotsAreTheFreeCandidates ==
  [][( /\ reply'.op = "getAvailableSlots" /\ reply' # reply
       /\ agents[reply'.agent].exists ) =>
       LET a == reply'.agent
           d == reply'.duration
           day == DayOf(reply'.date) * 1440
           cands == IF WeekdayOf(reply'.date) \in WorkingDays
                    THEN Candidates(day + WorkStart, day + WorkEnd,
                                    d + BufferTime)
                    ELSE <<>>
           Free(c) == /\ c + d <= day + WorkEnd
                      /\ CheckAvailability(a, c, c + d, reply'.fails)
           free == SelectSeq(cands, Free)
       IN reply'.out = [i \in 1..Len(free) |->
                          [start |-> free[i], end |-> free[i] + d]]
  ]_vars

\* C24: no request of createAutomatedBooking returns while its transaction
\* is still open: the transaction is committed on the lead_only and
\* fully_booked answers and aborted on every failure answer, the 400, 404
\* and 409 answers included.
C24_TransactionEndedOnReturn ==
  \A r \in Procs :
    pc[r] = "done" =>
      IF resp[r].code \in {200, 201}
      THEN txn[r].state = "committed"
      ELSE txn[r].state = "aborted"

\* C25: when a booking request reaches Lead.create while a lead of the same
\* email is already stored or staged by a concurrent request (both passed
\* Lead.findOne), the request that does not create the lead is answered 409
C25_ConcurrentDuplicateIs409 ==
  [][\A q \in Procs :
       (/\ pc[q] = "createLead"
        /\ pc'[q] = "done"
        /\ EmailMatches(body[q].email)
        /\ \/ DuplicateKey(leads, body[q].email)
           \/ LeadStagedElsewhere(q, body[q].email))
       => resp'[q].code = 409]_vars

\* C27: the automated booking that handleWebhookLead triggers for the lead it
\* has just created (propertyId and preferredDateTime given, a linked agent
\* free at that time) ends fully booked with a Scheduled meeting of that
\* request, unless the store or a provider failed (500)
C27_WebhookBookingBooks ==
  \A r \in Procs :
    (/\ reply.op = "webhook"
     /\ reply.booking # 0
     /\ reply.booking = rid[r]
     /\ pc[r] = "done"
     /\ resp[r].code # 500)
    => /\ resp[r].bookingStatus = "fully_booked"
       /\ \E i \in MeetingsOf(r) : meetings[i].status = "Scheduled"

\* C28: every free/busy query and every event insert of a call for an agent
\* is issued with the credentials of that agent, whatever other calls run
\* concurrently
C28_OwnCredentials ==
  \A c \in Procs :
    calls[c].pc = "issued" => calls[c].with = calls[c].agent

\* C29: a user with at least one joined socket that has not disconnected is
\* registered as connected: isUserConnected is true and notifyUser delivers to
\* a live socket
C29_LiveSocketIsRegistered ==
  \A u \in Users :
    LiveSockets(u) # {} =>
      /\ isUserConnected(u)
      /\ NotifyUserDelivers(u)

\* C30: once the booking request that created a calendar event has returned,
\* the event exists only if the Meeting of that request is committed: an
\* aborted transaction leaves no calendar event of its request
C30_EventOnlyWithCommittedMeeting ==
  \A ev \in events :
    (/\ ev.by # 0
     /\ ~\E r \in Procs : rid[r] = ev.by /\ pc[r] \notin {"idle", "done"})
    => \E i \in DOMAIN meetings : meetings[i].by = ev.by

\* C10: a booking that finds no bookable agent, or no agent/slot pair,
\* commits exactly one Lead (status New, assignedTo "Auto-assigned"), no
\* Meeting and no counter change, and answers 200 lead_only.
C10_LeadOnly ==
  \A r \in Procs :
    pc[r] = "done" =>
      /\ resp[r].bookingStatus = "lead_only" =>
           /\ resp[r].code = 200
           /\ sel[r] = NoSel
           /\ Cardinality(LeadsOf(r)) = 1
           /\ \A i \in LeadsOf(r) :
                /\ leads[i].status = "New"
                /\ leads[i].assignedTo = "Auto-assigned"
                /\ leads[i].email = LowerCase(body[r].email)
           /\ MeetingsOf(r) = {}
           /\ TotalsMatch
      /\ (txn[r].state = "committed" /\ (found[r] = <<>> \/ sel[r] = NoSel)) =>
           resp[r].bookingStatus = "lead_only"

\* C10 witness: no agent was bookable and the Lead alone was committed
C10_Witness ==
  \E r \in Procs :
    pc[r] = "done" /\ resp[r].bookingStatus = "lead_only" /\ found[r] = <<>>

====
